---- MODULE Spec2Model ----
(***************************************************************************)
(* A model of firedrake/dmplex.py: the derivation of PyOP2 entity classes, *)
(* of the global point permutation and of the FEniCS-style local           *)
(* numberings from a DMPlex.                                               *)
(*                                                                         *)
(* The DMPlex is a simplicial mesh: a strip of n simplices of dimension    *)
(* dim over the vertices 0 .. n+dim-1, cell i having the vertices          *)
(* i .. i+dim, fully interpolated (every sub-simplex is a point).          *)
(***************************************************************************)
EXTENDS Integers, Sequences, FiniteSets, TLC

\* The largest number of vertices of a mesh.
MaxVerts == 4
\* The largest number of leaves of the point overlap SF.
MaxSeeds == 2

\* Topological dimensions of the simplicial meshes.
Dims == 1..3

Meshes == {m \in [dim : Dims, n : 1..MaxVerts] : m.n + m.dim <= MaxVerts}

-----------------------------------------------------------------------------
(* Sequences and sets *)

SetMin(S) == CHOOSE x \in S : \A y \in S : x <= y

RECURSIVE SortedSeq(_)
SortedSeq(S) == IF S = {} THEN <<>>
                ELSE <<SetMin(S)>> \o SortedSeq(S \ {SetMin(S)})

Range(s) == {s[i] : i \in 1..Len(s)}

RECURSIVE Concat(_)
Concat(ss) == IF ss = <<>> THEN <<>> ELSE Head(ss) \o Concat(Tail(ss))

Reverse(s) == [i \in 1..Len(s) |-> s[Len(s) + 1 - i]]

\* The first position of x in s (np.where(s == x)[0][0]), counted from 0.
IndexOf(s, x) == (CHOOSE i \in 1..Len(s) : s[i] = x /\ \A j \in 1..(i-1) : s[j] # x) - 1

-----------------------------------------------------------------------------
(* The DMPlex: chart, strata, closures, stars and supports *)

Verts(m) == 0..(m.n + m.dim - 1)
CellVerts(m, i) == i..(i + m.dim)

\* The simplices of depth d: the (d+1)-subsets of some cell's vertices.
Simplices(m, d) ==
    {s \in SUBSET Verts(m) : /\ Cardinality(s) = d + 1
                             /\ \E i \in 0..(m.n - 1) : s \subseteq CellVerts(m, i)}

\* A function as an explicit table of its values.
Table(f) == f @@ <<>>

RECURSIVE Weight(_)
Weight(s) == IF s = {} THEN 0
             ELSE LET v == CHOOSE x \in s : \A y \in s : y <= x
                  IN  2^v + Weight(s \ {v})

\* The chart holds the cells first, then the vertices, then the
\* intermediate strata from depth dim-1 down to depth 1.
StrataOrder(m) == <<m.dim, 0>> \o [k \in 1..(m.dim - 1) |-> m.dim - k]

StratumStart(m, d) ==
    LET ord == StrataOrder(m)
        RECURSIVE Before(_)
        Before(k) == IF ord[k] = d THEN 0
                     ELSE Cardinality(Simplices(m, ord[k])) + Before(k + 1)
    IN  Before(1)

PointId(m, s) ==
    LET d == Cardinality(s) - 1
    IN  StratumStart(m, d)
          + Cardinality({t \in Simplices(m, d) : Weight(t) < Weight(s)})

BuildPlex(m) ==
    LET pts     == UNION {Simplices(m, d) : d \in 0..m.dim}
        nPts    == Cardinality(pts)
        chart   == 0..(nPts - 1)
        simplex == Table([p \in chart |-> CHOOSE s \in pts : PointId(m, s) = p])
        depth   == Table([p \in chart |-> Cardinality(simplex[p]) - 1])
        below(p, d) == {q \in chart : depth[q] = d /\ simplex[q] \subseteq simplex[p]}
        above(p, d) == {q \in chart : depth[q] = d /\ simplex[p] \subseteq simplex[q]}
    IN  [dim     |-> m.dim,
         n       |-> m.n,
         pStart  |-> 0,
         pEnd    |-> nPts,
         depth   |-> depth,
         strata  |-> Table([d \in 0..m.dim |->
                        <<StratumStart(m, d), StratumStart(m, d) + Cardinality(Simplices(m, d))>>]),
         closure |-> Table([p \in chart |->
                        Concat([k \in 1..(depth[p] + 1) |-> SortedSeq(below(p, depth[p] + 1 - k))])]),
         star    |-> Table([p \in chart |->
                        Concat([k \in 1..(m.dim - depth[p] + 1) |-> SortedSeq(above(p, depth[p] + k - 1))])]),
         support |-> Table([p \in chart |->
                        IF depth[p] = m.dim THEN <<>> ELSE SortedSeq(above(p, depth[p] + 1))])]

Plexes == {BuildPlex(m) : m \in Meshes}

PlexOf(m) == CHOOSE P \in Plexes : P.dim = m.dim /\ P.n = m.n

getDimension(plex) == plex.dim
Chart(plex) == plex.pStart..(plex.pEnd - 1)
getDepthStratum(plex, d) == plex.strata[d]
getHeightStratum(plex, h) == plex.strata[plex.dim - h]
getTransitiveClosure(plex, p) == plex.closure[p]
getTransitiveStar(plex, p) == plex.star[p]
getSupport(plex, p) == plex.support[p]
getDepth(plex, p) == plex.depth[p]

InStratum(range, p) == range[1] <= p /\ p < range[2]

-----------------------------------------------------------------------------
(* Labels *)

ClassLabels == {"op2_core", "op2_non_core", "op2_exec_halo"}

\* A label without values: getLabelValue answers -1 everywhere.
createLabel(plex) == [p \in Chart(plex) |-> -1]

getLabelValue(lab, name, p) == lab[name][p]
Stratum(lab, name, v) == {p \in DOMAIN lab[name] : lab[name][p] = v}
getStratumSize(lab, name, v) == Cardinality(Stratum(lab, name, v))
getStratumIS(lab, name, v) == SortedSeq(Stratum(lab, name, v))

\* The record of one getStratumIS call: the label, the value and the size
\* of the stratum at the time of the call.
Query(site, lab, name, v) ==
    [site |-> site, label |-> name, value |-> v, size |-> getStratumSize(lab, name, v)]

-----------------------------------------------------------------------------
(* State *)

VARIABLES
    mesh,            \* the DMPlex: [dim, n]
    comm_size,       \* MPI.comm.size
    local,           \* the leaves of the point overlap SF (point_sf.getGraph)
    label,           \* the three class labels: name -> point -> value
    pc,              \* which operation has run
    isQueries,       \* the getStratumIS calls made so far
    sel_depth,       \* get_entities_by_class: depth
    sel_condition,   \* get_entities_by_class: condition
    entities,        \* get_entities_by_class: first result
    entity_classes,  \* get_entities_by_class: second result
    perm,            \* plex_renumbering: the returned array
    p_glbl,          \* plex_renumbering: the output cursor at the return
    vertex_numbering,     \* the global vertex numbering: vertex -> signed offset
    lpc,                  \* which local numberer has run
    facet,                \* facet_numbering: facet
    local_facet,          \* facet_numbering: result
    cell,                 \* the cell whose closure closure_numbering is given
    closure,              \* closure_numbering: closure
    dofs_per_entity,      \* closure_numbering: dofs_per_entity
    local_numbering,      \* closure_numbering: result
    peer_numbering,       \* the vertex numbering as the peer process holds it
    peer_closure,         \* closure_numbering on the peer: closure
    peer_local_numbering  \* closure_numbering on the peer: result

class_vars == <<comm_size, local, label, pc, isQueries, sel_depth,
                sel_condition, entities, entity_classes, perm, p_glbl>>

local_vars == <<vertex_numbering, lpc, facet, local_facet, cell, closure,
                dofs_per_entity, local_numbering, peer_numbering,
                peer_closure, peer_local_numbering>>

vars == <<mesh, class_vars, local_vars>>

Plex == PlexOf(mesh)

-----------------------------------------------------------------------------
(* mark_entity_classes *)

\* for p in local: setLabelValue("op2_exec_halo", p, depth)
SeedExecHalo(plex, lab, leaves) ==
    [lab EXCEPT !["op2_exec_halo"] =
        [p \in Chart(plex) |-> IF p \in leaves THEN getDepth(plex, p) ELSE @[p]]]

\* The sequential case: every point of the chart is core.
MarkAllCore(plex, lab) ==
    [lab EXCEPT !["op2_core"] = [p \in Chart(plex) |-> getDepth(plex, p)]]

\* A variant: the cells with some closure point seeded exec_halo.
HaloCells_any_closure_point(plex, lab) ==
    SortedSeq({c \in Chart(plex) :
                 /\ InStratum(getHeightStratum(plex, 0), c)
                 /\ \E q \in Range(getTransitiveClosure(plex, c)) :
                       getLabelValue(lab, "op2_exec_halo", q) >= 0})

HaloCells(plex, lab) == getStratumIS(lab, "op2_exec_halo", getDimension(plex))

\* The cells in the star of a vertex of a halo cell that are not exec_halo.
AdjacentCells(plex, lab) ==
    LET cells    == getHeightStratum(plex, 0)
        vertices == getDepthStratum(plex, 0)
    IN  {adj \in Chart(plex) :
            \E c \in Range(HaloCells(plex, lab)) :
              \E vertex \in Range(getTransitiveClosure(plex, c)) :
                 /\ InStratum(vertices, vertex)
                 /\ adj \in Range(getTransitiveStar(plex, vertex))
                 /\ InStratum(cells, adj)
                 /\ getLabelValue(lab, "op2_exec_halo", adj) < 0}

\* Every point in the closure of an adjacent cell that is not exec_halo.
MarkNonCore(plex, lab) ==
    LET marked == {p \in Chart(plex) :
                     \E adj_cell \in AdjacentCells(plex, lab) :
                        /\ p \in Range(getTransitiveClosure(plex, adj_cell))
                        /\ getLabelValue(lab, "op2_exec_halo", p) < 0}
    IN  [lab EXCEPT !["op2_non_core"] =
            [p \in Chart(plex) |-> IF p \in marked THEN getDepth(plex, p) ELSE @[p]]]

\* A variant: the non_core label is not looked at.
MarkCore_without_non_core_test(plex, lab) ==
    [lab EXCEPT !["op2_core"] =
        [p \in Chart(plex) |->
            IF getLabelValue(lab, "op2_exec_halo", p) < 0
            THEN getDepth(plex, p) ELSE @[p]]]

\* Every point that is neither exec_halo nor non_core.
MarkCore(plex, lab) ==
    [lab EXCEPT !["op2_core"] =
        [p \in Chart(plex) |->
            IF /\ getLabelValue(lab, "op2_exec_halo", p) < 0
               /\ getLabelValue(lab, "op2_non_core", p) < 0
            THEN getDepth(plex, p) ELSE @[p]]]

mark_entity_classes ==
    /\ pc = "start"
    /\ LET plex    == Plex
           created == [name \in ClassLabels |-> createLabel(plex)]
       IN  IF comm_size > 1
           THEN LET seeded == SeedExecHalo(plex, created, local)
                    query  == Query("mark_entity_classes", seeded,
                                    "op2_exec_halo", getDimension(plex))
                IN  /\ isQueries' = isQueries \cup {query}
                    /\ IF query.size = 0
                       THEN \* the index set of an empty stratum has no indices
                            /\ label' = seeded
                            /\ pc' = "failed"
                       ELSE /\ label' = MarkCore(plex, MarkNonCore(plex, seeded))
                            /\ pc' = "classified"
           ELSE /\ label' = MarkAllCore(plex, created)
                /\ pc' = "classified"
                /\ UNCHANGED isQueries
    /\ UNCHANGED <<mesh, comm_size, local, sel_depth, sel_condition,
                   entities, entity_classes, perm, p_glbl, local_vars>>

-----------------------------------------------------------------------------
(* get_entities_by_class *)

\* The optional predicate on points: None, or a function of the point.
Conditions == {"None", "even", "vertex_or_cell", "never"}

Holds(plex, condition, p) ==
    CASE condition = "even" -> p % 2 = 0
      [] condition = "vertex_or_cell" -> getDepth(plex, p) \in {0, getDimension(plex)}
      [] condition = "never" -> FALSE
      [] OTHER -> TRUE

Filter(plex, condition, s) == SelectSeq(s, LAMBDA p : Holds(plex, condition, p))

\* A variant: the class is put in front of the entities collected so far.
AppendClass_in_front(plex, lab, name, depth, condition, ents) ==
    IF getStratumSize(lab, name, depth) > 0
    THEN LET ids == getStratumIS(lab, name, depth)
         IN  (IF condition # "None" THEN Filter(plex, condition, ids) ELSE ids) \o ents
    ELSE ents

\* One class of get_entities_by_class: the stratum is looked up only when
\* it is not empty, filtered when a condition is given, and appended.
AppendClass(plex, lab, name, depth, condition, ents) ==
    IF getStratumSize(lab, name, depth) > 0
    THEN LET ids == getStratumIS(lab, name, depth)
         IN  ents \o (IF condition # "None" THEN Filter(plex, condition, ids) ELSE ids)
    ELSE ents

EntitiesByClass(plex, lab, depth, condition) ==
    LET e1 == AppendClass(plex, lab, "op2_core", depth, condition, <<>>)
        e2 == AppendClass(plex, lab, "op2_non_core", depth, condition, e1)
        e3 == AppendClass(plex, lab, "op2_exec_halo", depth, condition, e2)
    IN  [entities |-> e3,
         entity_classes |-> <<Len(e1), Len(e2), Len(e3), Len(e3)>>]

\* The getStratumIS calls of a guarded site: one per non-empty stratum.
GuardedQueries(site, lab, v) ==
    {Query(site, lab, name, v) : name \in {n \in ClassLabels : getStratumSize(lab, n, v) > 0}}

get_entities_by_class ==
    /\ pc = "classified"
    /\ \E depth \in 0..getDimension(Plex), condition \in Conditions :
         LET r == EntitiesByClass(Plex, label, depth, condition)
         IN  /\ sel_depth' = depth
             /\ sel_condition' = condition
             /\ entities' = r.entities
             /\ entity_classes' = r.entity_classes
             /\ isQueries' = isQueries \cup GuardedQueries("get_entities_by_class", label, depth)
    /\ pc' = "selected"
    /\ UNCHANGED <<mesh, comm_size, local, label, perm, p_glbl, local_vars>>

-----------------------------------------------------------------------------
(* plex_renumbering *)

\* for p in closure: a point not yet seen that carries the class label is
\* marked seen and written at the cursor (the cursor is Len(st.perm)).
RECURSIVE RenumberClosure(_, _, _, _)
RenumberClosure(lab, name, cl, st) ==
    IF cl = <<>> THEN st
    ELSE LET p == Head(cl)
             next == IF p \in st.seen THEN st
                     ELSE IF getLabelValue(lab, name, p) >= 0
                          THEN [seen |-> st.seen \cup {p}, perm |-> Append(st.perm, p)]
                          ELSE st
         IN  RenumberClosure(lab, name, Tail(cl), next)

RECURSIVE RenumberCells(_, _, _, _, _)
RenumberCells(plex, lab, name, cells, st) ==
    IF cells = <<>> THEN st
    ELSE RenumberCells(plex, lab, name, Tail(cells),
                       RenumberClosure(lab, name, getTransitiveClosure(plex, Head(cells)), st))

RenumberClass(plex, lab, name, st) ==
    IF getStratumSize(lab, name, getDimension(plex)) > 0
    THEN RenumberCells(plex, lab, name, getStratumIS(lab, name, getDimension(plex)), st)
    ELSE st

\* The written part of perm after the three passes.
Renumbering(plex, lab) ==
    RenumberClass(plex, lab, "op2_exec_halo",
      RenumberClass(plex, lab, "op2_non_core",
        RenumberClass(plex, lab, "op2_core", [seen |-> {}, perm |-> <<>>])))

\* What a slot of np.empty that was never written may hold: the value of a
\* point of the chart, or a value that is no point.
Uninitialised(plex) == (plex.pStart - 1)..(plex.pEnd - 1)

plex_renumbering ==
    /\ pc = "classified"
    /\ LET plex == Plex
           st   == Renumbering(plex, label)
           n    == plex.pEnd - plex.pStart
       IN  /\ \E u \in Uninitialised(plex) :
                perm' = st.perm \o [i \in 1..(n - Len(st.perm)) |-> u]
           /\ p_glbl' = Len(st.perm)
           /\ isQueries' = isQueries \cup GuardedQueries("plex_renumbering", label, getDimension(plex))
    /\ pc' = "renumbered"
    /\ UNCHANGED <<mesh, comm_size, local, label, sel_depth, sel_condition,
                   entities, entity_classes, local_vars>>

-----------------------------------------------------------------------------
(* The classification pipeline *)

RECURSIVE SubsetsUpTo(_, _)
SubsetsUpTo(S, k) ==
    IF k = 0 THEN {{}}
    ELSE LET smaller == SubsetsUpTo(S, k - 1)
         IN  smaller \cup {t \cup {x} : t \in smaller, x \in S}

\* The overlap graphs: at most MaxSeeds leaves, any points of the chart.
Seeds(plex) == SubsetsUpTo(Chart(plex), MaxSeeds)

\* No local numberer has been called.
LocalIdle ==
    /\ lpc = "idle"
    /\ facet = 0
    /\ local_facet = <<>>
    /\ cell = 0
    /\ closure = <<>>
    /\ dofs_per_entity = <<>>
    /\ local_numbering = <<>>
    /\ peer_numbering = <<>>
    /\ peer_closure = <<>>
    /\ peer_local_numbering = <<>>

\* Nothing has been classified.
Unclassified ==
    /\ label = [name \in ClassLabels |-> createLabel(Plex)]
    /\ pc = "start"
    /\ isQueries = {}
    /\ sel_depth = 0
    /\ sel_condition = "None"
    /\ entities = <<>>
    /\ entity_classes = <<0, 0, 0, 0>>
    /\ perm = <<>>
    /\ p_glbl = 0

Init ==
    /\ mesh \in Meshes
    /\ \/ comm_size = 1 /\ local = {}
       \/ comm_size = 2 /\ local \in Seeds(Plex)
    /\ Unclassified
    /\ vertex_numbering = <<>>
    /\ LocalIdle

Next ==
    \/ mark_entity_classes
    \/ get_entities_by_class
    \/ plex_renumbering

Spec == Init /\ [][Next]_vars

-----------------------------------------------------------------------------
(* The local numberers: facet_numbering and closure_numbering *)

getOffset(vn, v) == vn[v]

\* A variant: the offset is used as it is.
Corrected_uncorrected(v) == v

\* Plex defines non-owned universal numbers as negative: N = -(N+1).
Corrected(v) == IF v >= 0 THEN v ELSE -(v + 1)

\* Python's order of lists of integers.
RECURSIVE LexLess(_, _)
LexLess(a, b) ==
    IF a = <<>> THEN b # <<>>
    ELSE IF b = <<>> THEN FALSE
    ELSE IF Head(a) # Head(b) THEN Head(a) < Head(b)
    ELSE LexLess(Tail(a), Tail(b))

\* sorted(zip(items, keys), key=itemgetter(1)): a stable sort of the pairs
\* <<item, key>> by key, the keys being lists of integers.
RECURSIVE InsertPair(_, _)
InsertPair(sorted, pair) ==
    IF sorted = <<>> THEN <<pair>>
    ELSE IF LexLess(pair[2], Head(sorted)[2]) THEN <<pair>> \o sorted
    ELSE <<Head(sorted)>> \o InsertPair(Tail(sorted), pair)

RECURSIVE SortPairs(_)
SortPairs(pairs) ==
    IF pairs = <<>> THEN <<>>
    ELSE InsertPair(SortPairs(SubSeq(pairs, 1, Len(pairs) - 1)), pairs[Len(pairs)])

SortedByKey(items, keys) ==
    LET pairs == SortPairs([i \in 1..Len(items) |-> <<items[i], keys[i]>>])
    IN  [i \in 1..Len(items) |-> pairs[i][1]]

\* filter(lambda p: pStart <= p < pEnd, cl)
FilterStratum(plex, d, cl) ==
    SelectSeq(cl, LAMBDA p : InStratum(getDepthStratum(plex, d), p))

\* The vertices of a closure by ascending corrected universal number.
SortedVertices(plex, vn, cl) ==
    LET vertices == FilterStratum(plex, 0, cl)
        v_glbl   == [i \in 1..Len(vertices) |-> Corrected(getOffset(vn, vertices[i]))]
    IN  SortedByKey(vertices, [i \in 1..Len(vertices) |-> <<v_glbl[i]>>])

\* [v for v in vertices if v not in v_incident], v_incident the vertices
\* in the closure of p.
NonIncident(plex, vertices, p) ==
    LET v_incident == Range(FilterStratum(plex, 0, getTransitiveClosure(plex, p)))
    IN  SelectSeq(vertices, LAMBDA v : v \notin v_incident)

\* A variant: the number of the first incident vertex.
LocalFacet_incident(plex, vn, f, c) ==
    LET vertices == SortedVertices(plex, vn, getTransitiveClosure(plex, c))
        v_inc    == SelectSeq(vertices, LAMBDA v : v \in Range(getTransitiveClosure(plex, f)))
    IN  IndexOf(vertices, Head(v_inc))

\* Local facet number := local number of non-incident vertex.
LocalFacet(plex, vn, f, c) ==
    LET vertices        == SortedVertices(plex, vn, getTransitiveClosure(plex, c))
        v_non_incident  == Head(NonIncident(plex, vertices, f))
    IN  IndexOf(vertices, v_non_incident)

FacetNumbering(plex, vn, f) ==
    LET cells == getSupport(plex, f)
    IN  [k \in 1..Len(cells) |-> LocalFacet(plex, vn, f, cells[k])]

\* A variant: no reversal in one dimension.
ClosureVertices_unreversed(plex, vn, cl) == SortedVertices(plex, vn, cl)

\* The vertices of closure_numbering: sorted, and reversed when dim == 1.
ClosureVertices(plex, vn, cl) ==
    IF getDimension(plex) = 1
    THEN Reverse(SortedVertices(plex, vn, cl))
    ELSE SortedVertices(plex, vn, cl)

\* The local numbers of the non-incident vertices of the points.
NonIncidentNumbers(plex, vertices, points) ==
    [i \in 1..Len(points) |->
        LET v_non_inc == NonIncident(plex, vertices, points[i])
        IN  [j \in 1..Len(v_non_inc) |-> IndexOf(vertices, v_non_inc[j])]]

\* A variant: the points are re-ordered whatever their DoFs.
StratumPoints_always_sorted(plex, cl, dofs, vertices, d) ==
    LET points == FilterStratum(plex, d, cl)
    IN  SortedByKey(points, NonIncidentNumbers(plex, vertices, points))

\* The points of depth d of the closure, re-ordered only if they have DoFs.
StratumPoints(plex, cl, dofs, vertices, d) ==
    LET points == FilterStratum(plex, d, cl)
    IN  IF dofs[d] > 0
        THEN SortedByKey(points, NonIncidentNumbers(plex, vertices, points))
        ELSE points

ClosureNumbering(plex, vn, cl, dofs) ==
    LET dim      == getDimension(plex)
        vertices == ClosureVertices(plex, vn, cl)
        cells    == SelectSeq(cl, LAMBDA c : InStratum(getHeightStratum(plex, 0), c))
    IN  vertices
          \o Concat([d \in 1..(dim - 1) |-> StratumPoints(plex, cl, dofs, vertices, d)])
          \o cells

facet_numbering ==
    /\ lpc = "idle"
    /\ \E f \in Chart(Plex) :
         /\ getDepth(Plex, f) = getDimension(Plex) - 1
         /\ facet' = f
         /\ local_facet' = FacetNumbering(Plex, vertex_numbering, f)
    /\ lpc' = "facet"
    /\ UNCHANGED <<mesh, class_vars, vertex_numbering, cell, closure, dofs_per_entity,
                   local_numbering, peer_numbering, peer_closure, peer_local_numbering>>

\* The closure of a cell as the caller may hand it over: in the order of
\* getTransitiveClosure, or in the opposite order.
ClosureOrders(plex, c) ==
    {getTransitiveClosure(plex, c), Reverse(getTransitiveClosure(plex, c))}

\* dofs_per_entity: one entry per depth; the vertices carry a DoF.
DofsPerEntity(plex) ==
    {dofs \in [0..getDimension(plex) -> {0, 1}] : dofs[0] = 1 /\ dofs[getDimension(plex)] = 0}

closure_numbering ==
    /\ lpc = "idle"
    /\ \E c \in Chart(Plex) :
         /\ getDepth(Plex, c) = getDimension(Plex)
         /\ \E cl \in ClosureOrders(Plex, c), dofs \in DofsPerEntity(Plex) :
              /\ cell' = c
              /\ closure' = cl
              /\ dofs_per_entity' = dofs
              /\ local_numbering' = ClosureNumbering(Plex, vertex_numbering, cl, dofs)
    /\ lpc' = "closure"
    /\ UNCHANGED <<mesh, class_vars, vertex_numbering, facet, local_facet,
                   peer_numbering, peer_closure, peer_local_numbering>>

\* Renumberings of the set S: the rotations and the reflections of its
\* ascending order (every permutation when S has at most three elements).
Renumberings(S) ==
    LET s == SortedSeq(S)
        k == Len(s)
    IN  {[x \in S |-> s[((a * IndexOf(s, x) + r) % k) + 1]] : a \in {1, k - 1}, r \in 0..(k - 1)}

\* The numbering on the process that shares the cell c: its local vertex v
\* is the vertex that is tau[v] here, and a vertex owned here is not owned
\* there (and the other way round), so the sign of the offset is the other.
PeerNumbering(plex, vn, c, tau) ==
    [v \in DOMAIN vn |->
        LET here == IF v \in DOMAIN tau THEN tau[v] ELSE v
        IN  -(vn[here] + 1)]

\* closure_numbering as the process sharing the cell runs it, on its own
\* numbering of the points and its own order of the closure.
closure_numbering_on_peer ==
    /\ lpc = "closure"
    /\ LET cellVerts == Range(FilterStratum(Plex, 0, getTransitiveClosure(Plex, cell)))
       IN  \E tau \in Renumberings(cellVerts), cl \in ClosureOrders(Plex, cell) :
              LET vn == PeerNumbering(Plex, vertex_numbering, cell, tau)
              IN  /\ peer_numbering' = vn
                  /\ peer_closure' = cl
                  /\ peer_local_numbering' = ClosureNumbering(Plex, vn, cl, dofs_per_entity)
    /\ lpc' = "peer"
    /\ UNCHANGED <<mesh, class_vars, vertex_numbering, facet, local_facet, cell,
                   closure, dofs_per_entity, local_numbering>>

\* The universal numbers in use: consecutive from 0, or the odd numbers.
Spacings == {<<1, 0>>, <<2, 1>>}

\* The global vertex numberings: the vertices carry distinct universal
\* numbers in any order; this process owns the even ones.
Numberings(plex) ==
    LET vertices == {p \in Chart(plex) : getDepth(plex, p) = 0}
        nV       == Cardinality(vertices)
    IN  {[v \in vertices |->
            LET g == sp[1] * pi[v] + sp[2]
            IN  IF g % 2 = 0 THEN g ELSE -(g + 1)] :
         pi \in {f \in [vertices -> 0..(nV - 1)] : \A x, y \in vertices : f[x] = f[y] => x = y},
         sp \in Spacings}

InitLocal ==
    /\ mesh \in Meshes
    /\ comm_size = 1
    /\ local = {}
    /\ Unclassified
    /\ vertex_numbering \in Numberings(Plex)
    /\ LocalIdle

NextLocal ==
    \/ facet_numbering
    \/ closure_numbering
    \/ closure_numbering_on_peer

SpecLocal == InitLocal /\ [][NextLocal]_vars

-----------------------------------------------------------------------------
(* Properties of the classification pipeline *)

PointsAtDepth(plex, d) == {p \in Chart(plex) : getDepth(plex, p) = d}
Labelled(name) == {p \in Chart(Plex) : label[name][p] >= 0}
IsVertex(plex, p) == getDepth(plex, p) = 0
IsCell(plex, p) == getDepth(plex, p) = getDimension(plex)
ClosureSet(plex, p) == Range(getTransitiveClosure(plex, p))

\* C1: after mark_entity_classes has completed, at every depth the points
\* labelled core, non_core and exec_halo are pairwise disjoint and together
\* are all points of that depth, each point being labelled with its depth;
\* on a single process non_core and exec_halo are empty and all is core.
C1_Partition ==
    pc = "classified" =>
       /\ \A d \in 0..getDimension(Plex) :
            /\ Stratum(label, "op2_core", d) \cap Stratum(label, "op2_non_core", d) = {}
            /\ Stratum(label, "op2_core", d) \cap Stratum(label, "op2_exec_halo", d) = {}
            /\ Stratum(label, "op2_non_core", d) \cap Stratum(label, "op2_exec_halo", d) = {}
            /\ UNION {Stratum(label, name, d) : name \in ClassLabels} = PointsAtDepth(Plex, d)
       /\ \A p \in Chart(Plex) :
            Cardinality({name \in ClassLabels : label[name][p] >= 0}) = 1
       /\ comm_size = 1 =>
            /\ Labelled("op2_core") = Chart(Plex)
            /\ Labelled("op2_non_core") = {}
            /\ Labelled("op2_exec_halo") = {}

\* A distributed mesh classified into three non-empty classes.
C1_Witness ==
    /\ pc = "classified"
    /\ comm_size > 1
    /\ \A name \in ClassLabels : Labelled(name) # {}

\* C2 as claimed: the array returned by plex_renumbering holds every point
\* of the chart exactly once and the cursor ends at pEnd - pStart.
C2_Bijection ==
    pc = "renumbered" =>
       /\ p_glbl = Plex.pEnd - Plex.pStart
       /\ Len(perm) = Plex.pEnd - Plex.pStart
       /\ \A p \in Chart(Plex) : Cardinality({i \in 1..Len(perm) : perm[i] = p}) = 1

\* The class of the point a slot of perm holds: 1 core, 2 non_core,
\* 3 exec_halo, and 0 when the slot holds no point of the chart.
ClassRank(x) ==
    IF x \notin Chart(Plex) THEN 0
    ELSE IF label["op2_core"][x] >= 0 THEN 1
    ELSE IF label["op2_non_core"][x] >= 0 THEN 2
    ELSE IF label["op2_exec_halo"][x] >= 0 THEN 3
    ELSE 0

\* C3 as claimed: in the returned array every position holding a core point
\* is before every position holding a non_core point, and every position
\* holding a non_core point before every position holding an exec_halo point.
C3_ClassOrder ==
    pc = "renumbered" =>
       \A i, j \in 1..Len(perm) :
          (ClassRank(perm[i]) > 0 /\ ClassRank(perm[i]) < ClassRank(perm[j])) => i < j

\* The part of the array that the traversal wrote is ordered by class, and
\* holds no point twice.
WrittenPartOrdered ==
    pc = "renumbered" =>
       /\ \A i, j \in 1..p_glbl : ClassRank(perm[i]) < ClassRank(perm[j]) => i < j
       /\ \A i, j \in 1..p_glbl : perm[i] = perm[j] => i = j
       /\ \A i \in 1..p_glbl : perm[i] \in Chart(Plex)

\* C5: the boundaries of get_entities_by_class are
\* 0 <= b[0] <= b[1] <= b[2] = b[3] <= the number of points of the depth,
\* the entities are b[3] many, and the three segments hold core, non_core
\* and exec_halo points of that depth.
C5_Boundaries ==
    pc = "selected" =>
       LET b == entity_classes
       IN  /\ 0 <= b[1] /\ b[1] <= b[2] /\ b[2] <= b[3] /\ b[3] = b[4]
           /\ b[4] <= Cardinality(PointsAtDepth(Plex, sel_depth))
           /\ Len(entities) = b[4]
           /\ \A i \in 1..Len(entities) :
                /\ i <= b[1] => label["op2_core"][entities[i]] = sel_depth
                /\ (b[1] < i /\ i <= b[2]) => label["op2_non_core"][entities[i]] = sel_depth
                /\ (b[2] < i /\ i <= b[3]) => label["op2_exec_halo"][entities[i]] = sel_depth

\* A filtered selection with three non-empty segments.
C5_Witness ==
    /\ pc = "selected"
    /\ sel_condition # "None"
    /\ 0 < entity_classes[1]
    /\ entity_classes[1] < entity_classes[2]
    /\ entity_classes[2] < entity_classes[3]

\* C8 as claimed: no getStratumIS call is made on an empty stratum.
C8_NoEmptyStratumQuery ==
    \A q \in isQueries : q.size > 0

\* The cells that share a vertex with a cell of halo and are not seeded.
AdjacentTo(plex, halo) ==
    {adj \in Chart(plex) :
        /\ IsCell(plex, adj)
        /\ adj \notin local
        /\ \E c \in halo : \E v \in ClosureSet(plex, c) :
              IsVertex(plex, v) /\ v \in ClosureSet(plex, adj)}

\* With halo the halo cells: exec_halo is the seeded points, non_core the
\* unseeded closure points of the adjacent cells, core all the rest.
ClassifiedFrom(plex, halo) ==
    \A p \in Chart(plex) :
       LET inAdjacent == \E adj \in AdjacentTo(plex, halo) : p \in ClosureSet(plex, adj)
       IN  /\ label["op2_exec_halo"][p] >= 0 <=> p \in local
           /\ label["op2_non_core"][p] >= 0 <=> (p \notin local /\ inAdjacent)
           /\ label["op2_core"][p] >= 0 <=> (p \notin local /\ ~inAdjacent)

\* C9 as claimed: the halo cells are the cells with a seeded closure point.
C9_HaloCellsByClosure ==
    (pc = "classified" /\ comm_size > 1) =>
       ClassifiedFrom(Plex, {c \in Chart(Plex) :
                               IsCell(Plex, c) /\ ClosureSet(Plex, c) \cap local # {}})

\* C9 amended: the halo cells are the cells that are themselves seeded
\* exec_halo; the cells in the star of a vertex of a halo cell that are not
\* exec_halo are the adjacent cells, their closure points that are not
\* exec_halo are non_core, and every other point that is not exec_halo is core.
C9_HaloCellsSeeded ==
    (pc = "classified" /\ comm_size > 1) =>
       ClassifiedFrom(Plex, {c \in Chart(Plex) : IsCell(Plex, c) /\ c \in local})

\* A seeded halo cell next to an unseeded cell one of whose closure points
\* is seeded, and a cell that is no halo cell but has a seeded closure point.
C9_Witness ==
    /\ pc = "classified"
    /\ comm_size > 1
    /\ Labelled("op2_non_core") # {}
    /\ \E c \in Chart(Plex) :
          IsCell(Plex, c) /\ c \notin local /\ ClosureSet(Plex, c) \cap local # {}

-----------------------------------------------------------------------------
(* Properties of the local numberers *)

\* The universal number of a vertex under a numbering.
GlobalVertex(vn, v) == IF vn[v] >= 0 THEN vn[v] ELSE -(vn[v] + 1)

VerticesOf(plex, p) == {v \in ClosureSet(plex, p) : IsVertex(plex, v)}
GlobalVertices(plex, vn, p) == {GlobalVertex(vn, v) : v \in VerticesOf(plex, p)}

\* The points of depth d of a local numbering, in its order.
AtDepth(plex, numbering, d) == SelectSeq(numbering, LAMBDA p : getDepth(plex, p) = d)

\* C4: the closure of one cell numbered on two processes, whose local
\* vertices carry the same universal numbers under different local
\* identifiers and in different closure orders: the k-th vertex of both
\* results is the same universal vertex, and at every intermediate depth
\* with DoFs the k-th point of both results has the same universal vertices.
C4_PeerAgreement ==
    (lpc = "peer" /\ GlobalVertices(Plex, vertex_numbering, cell)
                       = GlobalVertices(Plex, peer_numbering, cell)) =>
       /\ Len(AtDepth(Plex, local_numbering, 0)) = Len(AtDepth(Plex, peer_local_numbering, 0))
       /\ \A k \in 1..(getDimension(Plex) + 1) :
            GlobalVertex(vertex_numbering, local_numbering[k])
              = GlobalVertex(peer_numbering, peer_local_numbering[k])
       /\ \A d \in 1..(getDimension(Plex) - 1) :
            dofs_per_entity[d] > 0 =>
               LET here  == AtDepth(Plex, local_numbering, d)
                   there == AtDepth(Plex, peer_local_numbering, d)
               IN  /\ Len(here) = Len(there)
                   /\ \A k \in 1..Len(here) :
                        GlobalVertices(Plex, vertex_numbering, here[k])
                          = GlobalVertices(Plex, peer_numbering, there[k])

\* Two processes that number the vertices of the cell differently, own
\* different vertices and hand over the closure in different orders, the
\* edges carrying DoFs.
C4_Witness ==
    /\ lpc = "peer"
    /\ getDimension(Plex) >= 2
    /\ dofs_per_entity[1] > 0
    /\ peer_closure # closure
    /\ \E v \in VerticesOf(Plex, cell) :
          GlobalVertex(vertex_numbering, v) # GlobalVertex(peer_numbering, v)
    /\ \E v \in VerticesOf(Plex, cell) : vertex_numbering[v] < 0
    /\ \E v \in VerticesOf(Plex, cell) : vertex_numbering[v] >= 0
    /\ local_numbering # peer_local_numbering

\* C6: facet_numbering returns one number per cell of the support of the
\* facet, in the order of the support: the number of cell vertices whose
\* universal number is below that of the one cell vertex not in the facet.
C6_FacetNumber ==
    lpc = "facet" =>
       LET support == getSupport(Plex, facet)
       IN  /\ Len(local_facet) = Len(support)
           /\ \A k \in 1..Len(support) :
                LET opposite == VerticesOf(Plex, support[k]) \ VerticesOf(Plex, facet)
                IN  /\ Cardinality(opposite) = 1
                    /\ \A u \in opposite :
                         local_facet[k] =
                            Cardinality({w \in VerticesOf(Plex, support[k]) :
                                            GlobalVertex(vertex_numbering, w)
                                              < GlobalVertex(vertex_numbering, u)})

\* The triangles {0,1,2} and {0,2,3} sharing the edge (0,2): 1 and 2.
C6_Witness ==
    /\ lpc = "facet"
    /\ getDimension(Plex) = 2
    /\ Len(getSupport(Plex, facet)) = 2
    /\ GlobalVertices(Plex, vertex_numbering, getSupport(Plex, facet)[1]) = {0, 1, 2}
    /\ GlobalVertices(Plex, vertex_numbering, getSupport(Plex, facet)[2]) = {0, 2, 3}
    /\ GlobalVertices(Plex, vertex_numbering, facet) = {0, 2}
    /\ local_facet = <<1, 2>>

\* The local numbers (places among the first dim+1 entries of the result,
\* from 0) of the cell vertices not incident to p, ascending.
NonIncidentKey(plex, numbering, p) ==
    LET nV == getDimension(plex) + 1
    IN  SortedSeq({k - 1 : k \in {j \in 1..nV : numbering[j] \notin VerticesOf(plex, p)}})

\* C7: closure_numbering returns the points of the closure re-ordered:
\* the vertices by ascending universal number (descending when dim = 1),
\* then depth by depth from 1 to dim-1 the points of the depth, in the
\* order of the closure when the depth has no DoFs and by the lexicographic
\* order of the local numbers of their non-incident vertices when it has,
\* then the cell.
C7_ClosureLayout ==
    lpc = "closure" =>
       LET dim == getDimension(Plex)
           out == local_numbering
           nV  == dim + 1
           blockStart(d) == nV + Cardinality({p \in Range(closure) :
                                                getDepth(Plex, p) >= 1 /\ getDepth(Plex, p) < d})
       IN  /\ Len(out) = Len(closure)
           /\ Range(out) = Range(closure)
           /\ \A i \in 1..nV : IsVertex(Plex, out[i])
           /\ \A i, j \in 1..nV :
                i < j => IF dim = 1
                         THEN GlobalVertex(vertex_numbering, out[i]) > GlobalVertex(vertex_numbering, out[j])
                         ELSE GlobalVertex(vertex_numbering, out[i]) < GlobalVertex(vertex_numbering, out[j])
           /\ \A d \in 1..(dim - 1) :
                LET given == AtDepth(Plex, closure, d)
                    block == SubSeq(out, blockStart(d) + 1, blockStart(d) + Len(given))
                IN  /\ Range(block) = Range(given)
                    /\ dofs_per_entity[d] = 0 => block = given
                    /\ dofs_per_entity[d] > 0 =>
                         \A i, j \in 1..Len(block) :
                            i < j => LexLess(NonIncidentKey(Plex, out, block[i]),
                                             NonIncidentKey(Plex, out, block[j]))
           /\ out[Len(out)] = cell

\* The triangle whose vertices carry 5, 1, 3 in the order of the closure,
\* with dofs [1, 0]: v(1), v(3), v(5), the three edges as given, the cell.
C7_Witness ==
    /\ lpc = "closure"
    /\ getDimension(Plex) = 2
    /\ dofs_per_entity[0] = 1 /\ dofs_per_entity[1] = 0
    /\ LET given == AtDepth(Plex, closure, 0)
       IN  /\ [i \in 1..3 |-> GlobalVertex(vertex_numbering, given[i])] = <<5, 1, 3>>
           /\ [i \in 1..3 |-> GlobalVertex(vertex_numbering, local_numbering[i])] = <<1, 3, 5>>
           /\ SubSeq(local_numbering, 1, 3) = <<given[2], given[3], given[1]>>
    /\ SubSeq(local_numbering, 4, 6) = AtDepth(Plex, closure, 1)
    /\ SubSeq(local_numbering, 4, 6) # SortedByKey(AtDepth(Plex, closure, 1),
                                           [i \in 1..3 |-> NonIncidentKey(Plex, local_numbering,
                                                                          AtDepth(Plex, closure, 1)[i])])
    /\ local_numbering[7] = cell

\* C10: for every facet of the cell, the number facet_numbering gives the
\* facet in the cell is the place of the facet among the points of
\* codimension 1 in the result of closure_numbering (those points carrying
\* DoFs when dim >= 2); in one dimension too, where closure_numbering
\* reverses the vertices and facet_numbering does not.
C10_FacetPlace ==
    (lpc = "closure" /\ (getDimension(Plex) >= 2 => dofs_per_entity[getDimension(Plex) - 1] > 0)) =>
       LET facets == AtDepth(Plex, local_numbering, getDimension(Plex) - 1)
       IN  /\ Len(facets) = getDimension(Plex) + 1
           /\ \A i \in 1..Len(facets) :
                LET support == getSupport(Plex, facets[i])
                    numbers == FacetNumbering(Plex, vertex_numbering, facets[i])
                IN  /\ cell \in Range(support)
                    /\ \A k \in 1..Len(support) : support[k] = cell => numbers[k] = i - 1

\* An interval numbered by closure_numbering whose vertices were reversed.
C10_Witness ==
    /\ lpc = "closure"
    /\ getDimension(Plex) = 1
    /\ GlobalVertex(vertex_numbering, local_numbering[1])
         > GlobalVertex(vertex_numbering, local_numbering[2])
    /\ FacetNumbering(Plex, vertex_numbering, local_numbering[1]) # <<>>

=============================================================================
